---------------------------- MODULE Spec2Model ----------------------------
(***************************************************************************)
(* promptTrace: the candidate-evaluation back end.                         *)
(*                                                                         *)
(*   DevOps/interaction-handler  logs one interaction record per call      *)
(*   DevOps/outcome-logger       logs one outcome record per call          *)
(*   DevOps/metrics-calculator   reads both logs for a candidate, computes *)
(*                               six signals, three composite scores and a *)
(*                               recommendation, and stores the summary    *)
(*                                                                         *)
(* Numbers.  The metrics calculator works on Python ints and floats.  An   *)
(* int is modelled by the integer itself.  A float is an IEEE-754 binary64 *)
(* value, modelled exactly: a record [m, e] standing for m * 2^e with m a  *)
(* natural number kept as a sequence of base-2^14 limbs (TLC's integers    *)
(* are 32 bits wide), and every float operation rounds to 53 significant   *)
(* bits, ties to even, as the hardware does.  The result of round(x, 1) is *)
(* kept as the integer number of tenths t: it stands for the float nearest *)
(* to t/10 (or for the int t/10 when round() was given an int).            *)
(***************************************************************************)
EXTENDS Integers, Sequences, FiniteSets, TLC

---------------------------------------------------------------------------
(* Natural numbers of any size: little-endian sequences of limbs, without  *)
(* leading zero limbs; <<>> is zero.                                       *)

LimbBits == 14

RECURSIVE Pow2(_)
Pow2(k) == IF k = 0 THEN 1 ELSE 2 * Pow2(k - 1)

Limb == Pow2(LimbBits)

RECURSIVE BNorm(_)
BNorm(a) ==
    IF a = <<>> THEN <<>>
    ELSE IF a[Len(a)] = 0 THEN BNorm(SubSeq(a, 1, Len(a) - 1))
    ELSE a

RECURSIVE BFromInt(_)
BFromInt(n) ==
    IF n = 0 THEN <<>> ELSE <<n % Limb>> \o BFromInt(n \div Limb)

RECURSIVE BToInt(_)
BToInt(a) ==
    IF a = <<>> THEN 0 ELSE Head(a) + Limb * BToInt(Tail(a))

RECURSIVE BAddC(_, _, _)
BAddC(a, b, c) ==
    IF a = <<>> /\ b = <<>> THEN (IF c = 0 THEN <<>> ELSE <<c>>)
    ELSE LET x == IF a = <<>> THEN 0 ELSE Head(a)
             y == IF b = <<>> THEN 0 ELSE Head(b)
             s == x + y + c
         IN  <<s % Limb>> \o BAddC(IF a = <<>> THEN <<>> ELSE Tail(a),
                                   IF b = <<>> THEN <<>> ELSE Tail(b),
                                   s \div Limb)

BAdd(a, b) == BAddC(a, b, 0)

RECURSIVE BMulSmallC(_, _, _)
BMulSmallC(a, k, c) ==
    IF a = <<>> THEN BFromInt(c)
    ELSE LET s == Head(a) * k + c
         IN  <<s % Limb>> \o BMulSmallC(Tail(a), k, s \div Limb)

\* a * k for 0 <= k < 2^16
BMulSmall(a, k) == BNorm(BMulSmallC(a, k, 0))

RECURSIVE BMul(_, _)
BMul(a, b) ==
    IF a = <<>> \/ b = <<>> THEN <<>>
    ELSE BAdd(BMulSmall(b, Head(a)),
              LET rest == BMul(Tail(a), b)
              IN  IF rest = <<>> THEN <<>> ELSE <<0>> \o rest)

\* [q, r]: quotient and remainder of a by k, 0 < k < 2^16; the limbs are
\* taken from the most significant one down.
RECURSIVE BDivSmallR(_, _)
BDivSmallR(a, k) ==
    IF a = <<>> THEN [q |-> <<>>, r |-> 0]
    ELSE LET hi  == BDivSmallR(Tail(a), k)
             cur == hi.r * Limb + Head(a)
         IN  [q |-> <<cur \div k>> \o hi.q, r |-> cur % k]

BDivSmall(a, k) ==
    LET d == BDivSmallR(a, k) IN [q |-> BNorm(d.q), r |-> d.r]

\* -1, 0, 1 as a < b, a = b, a > b
RECURSIVE BCmp(_, _)
BCmp(a, b) ==
    IF Len(a) # Len(b) THEN (IF Len(a) < Len(b) THEN -1 ELSE 1)
    ELSE IF a = <<>> THEN 0
    ELSE IF a[Len(a)] # b[Len(b)]
         THEN (IF a[Len(a)] < b[Len(b)] THEN -1 ELSE 1)
    ELSE BCmp(SubSeq(a, 1, Len(a) - 1), SubSeq(b, 1, Len(b) - 1))

RECURSIVE IntBitLen(_)
IntBitLen(n) == IF n = 0 THEN 0 ELSE 1 + IntBitLen(n \div 2)

BitLen(a) ==
    IF a = <<>> THEN 0 ELSE LimbBits * (Len(a) - 1) + IntBitLen(a[Len(a)])

\* a * 2^s
BShl(a, s) ==
    IF a = <<>> THEN <<>>
    ELSE [i \in 1..(s \div LimbBits) |-> 0] \o BMulSmall(a, Pow2(s % LimbBits))

\* a \div 2^s
BShr(a, s) ==
    IF s \div LimbBits >= Len(a) THEN <<>>
    ELSE BDivSmall(SubSeq(a, (s \div LimbBits) + 1, Len(a)), Pow2(s % LimbBits)).q

\* a % 2^s
BLow(a, s) ==
    LET k == s \div LimbBits
    IN  IF k >= Len(a) THEN a
        ELSE BNorm(SubSeq(a, 1, k) \o <<a[k + 1] % Pow2(s % LimbBits)>>)

\* n \div 2^s rounded to the nearest integer, ties to even; sticky says
\* that the exact value lies strictly above n (bits were already dropped).
BRoundShr(n, s, sticky) ==
    IF s = 0 THEN n
    ELSE LET q    == BShr(n, s)
             c    == BCmp(BLow(n, s), BShl(<<1>>, s - 1))
             odd  == q # <<>> /\ Head(q) % 2 = 1
             up   == c = 1 \/ (c = 0 /\ (sticky \/ odd))
         IN  IF up THEN BAdd(q, <<1>>) ELSE q

---------------------------------------------------------------------------
(* binary64 values >= 0 (the calculator never produces a negative float    *)
(* from the inputs considered here: negative coverage changes are floored  *)
(* by max(0, .) before any float arithmetic).                              *)

MantBits == 53

\* the float nearest to n * 2^e (n a natural as above)
FRound(n, e, sticky) ==
    LET s == IF BitLen(n) > MantBits THEN BitLen(n) - MantBits ELSE 0
    IN  [m |-> BRoundShr(n, s, sticky), e |-> e + s]

FFromInt(i) == [m |-> BFromInt(i), e |-> 0]

FMul(x, y) == FRound(BMul(x.m, y.m), x.e + y.e, FALSE)

FAdd(x, y) ==
    LET e == IF x.e < y.e THEN x.e ELSE y.e
    IN  FRound(BAdd(BShl(x.m, x.e - e), BShl(y.m, y.e - e)), e, FALSE)

\* -1, 0, 1 as x < y, x = y, x > y
FCmp(x, y) ==
    LET e == IF x.e < y.e THEN x.e ELSE y.e
    IN  BCmp(BShl(x.m, x.e - e), BShl(y.m, y.e - e))

\* Python's a / b on ints 0 <= a, 0 < b < 2^16: the float nearest to the
\* quotient (the quotient is first taken with 70 binary places, more than
\* the 53 kept, and the remainder tells whether anything was dropped).
\* Also the value of a decimal literal such as 0.35 (35/100) and of the
\* float that round(x, 1) returns (t/10).
FDivInt(a, b) ==
    LET guard == 5 * LimbBits
        d     == BDivSmall(BShl(BFromInt(a), guard), b)
    IN  FRound(d.q, -guard, d.r # 0)

\* min(limit, x) for an int limit
FMin(limit, x) == IF FCmp(x, FFromInt(limit)) = 1 THEN FFromInt(limit) ELSE x

\* a rounding that takes ties upward, as decimal arithmetic by hand does
Round1HalfUp(x) ==
    IF x.e >= 0 THEN BToInt(BShl(BMulSmall(x.m, 10), x.e))
    ELSE BToInt(BRoundShr(BMulSmall(x.m, 10), -x.e, TRUE))

\* round(x, 1) in tenths: CPython rounds the exact binary value of x to one
\* decimal, ties to even.
Round1(x) ==
    IF x.e >= 0 THEN BToInt(BShl(BMulSmall(x.m, 10), x.e))
    ELSE BToInt(BRoundShr(BMulSmall(x.m, 10), -x.e, FALSE))

\* the float (or int) that a value kept in tenths stands for
FTenths(t) == FDivInt(t, 10)

\* int(x): truncation toward zero
FTrunc(x) ==
    IF x.e >= 0 THEN BToInt(BShl(x.m, x.e)) ELSE BToInt(BShr(x.m, -x.e))

---------------------------------------------------------------------------
(* Values.  A JSON value that may be absent (a missing key, null) is <<>>  *)
(* when absent and <<v>> when present.  Identifiers are small integers;    *)
(* NONE is Python's None (key absent) and EMPTY the empty string: both are *)
(* falsy.                                                                  *)

NONE == 0
EMPTY == -1

\* the marker "all-tasks" that a summary carries in place of a task identifier
AllTasks == -2

\* the identifiers in use
Candidates == {1, 2}

\* a candidate identifier with a slash in it: that of candidate 1, a slash
\* and more ("1/x")
Slashed == 3

\* the fifth part of the key of an object of the candidate: split('/') of
\* "{prefix}/{year}/{month}/{day}/{candidate_id}/{request_id}.json" gives the
\* identifier up to its first slash
PathHead(candidate_id) == IF candidate_id = Slashed THEN 1 ELSE candidate_id
Tasks == {1, 2}
RequestIds == {1, 2}

\* the containers of the metrics calculator
Runs == {1, 2}

\* log objects stored, both logs together
MaxRecords == 2

\* summaries assembled
MaxClock == 2

Falsy(v) == v = NONE \/ v = EMPTY

Get(opt, default) == IF opt = <<>> THEN default ELSE opt[1]

Max(a, b) == IF a > b THEN a ELSE b
Min(a, b) == IF a < b THEN a ELSE b

RECURSIVE SumSeq(_)
SumSeq(s) == IF s = <<>> THEN 0 ELSE Head(s) + SumSeq(Tail(s))

\* [f(s[1]), ..., f(s[n])]
MapSeq(f(_), s) == [i \in 1..Len(s) |-> f(s[i])]

RECURSIVE Flatten(_)
Flatten(ss) == IF ss = <<>> THEN <<>> ELSE Head(ss) \o Flatten(Tail(ss))

---------------------------------------------------------------------------
(* interaction-handler: _compute_context_quality.  A user message is taken *)
(* by its length and by the number of question indicators it contains, a   *)
(* context by whether it carries a project summary.                        *)

\* a clarity score rounded to the nearest integer
ComputeContextQualityRounded(user_message, ctx) ==
    LET message_length  == user_message.length
        questions_asked == user_message.indicators
        times25 == 2 * message_length + 375 * questions_asked
                       + (IF ctx.projectSummary THEN 500 ELSE 0)
    IN  [messageLength     |-> message_length,
         questionsAsked    |-> questions_asked,
         clarityScore      |-> <<Min(100, (2 * times25 + 25) \div 50)>>,
         hasProjectSummary |-> ctx.projectSummary]

ComputeContextQuality(user_message, ctx) ==
    LET message_length  == user_message.length
        questions_asked == user_message.indicators
        clarity_score ==
            FMin(100, FAdd(FAdd(FMul(FDivInt(message_length, 500), FFromInt(40)),
                                FFromInt(questions_asked * 15)),
                           FFromInt(IF ctx.projectSummary THEN 20 ELSE 0)))
    IN  [messageLength     |-> message_length,
         questionsAsked    |-> questions_asked,
         clarityScore      |-> <<FTrunc(clarity_score)>>,
         hasProjectSummary |-> ctx.projectSummary]

---------------------------------------------------------------------------
(* metrics-calculator: the pure part.                                      *)

\* buckets that close on the right: a speed of exactly 2000 falls with the
\* faster decisions
ScoreContributionInclusive(speed) ==
    IF speed <= 500 THEN 20
    ELSE IF speed <= 2000 THEN 50
    ELSE IF speed <= 5000 THEN 80
    ELSE 100

\* the per-outcome contribution to analysis depth
ScoreContribution(speed) ==
    IF speed < 500 THEN 20
    ELSE IF speed < 2000 THEN 50
    ELSE IF speed < 5000 THEN 80
    ELSE 100

DecisionSpeed(outcome) == Get(outcome.metrics.decisionSpeed, 2000)

\* a mean cut off after the first decimal instead of rounded
MeanTruncated(xs) ==
    IF xs = <<>> THEN 0 ELSE (10 * SumSeq(xs)) \div Len(xs)

\* round(sum(xs) / len(xs), 1) if xs else 0, in tenths
MeanOrZero(xs) ==
    IF xs = <<>> THEN 0 ELSE Round1(FDivInt(SumSeq(xs), Len(xs)))

ContextQualitySignal(interactions) ==
    LET Clarity(i) == Get(i.contextQuality.clarityScore, 0)
    IN  MeanOrZero(MapSeq(Clarity, interactions))

\* the contributions averaged, as if the division of line 170 were assigned
AnalysisDepthMean(outcomes) ==
    LET Contribution(o) == ScoreContribution(Get(o.metrics.decisionSpeed, 2000))
        xs == MapSeq(Contribution, outcomes)
    IN  IF xs = <<>> THEN 0 ELSE (10 * SumSeq(xs)) \div Len(xs)

\* the contributions are added up; the division of line 170 is an
\* expression statement whose value is dropped
AnalysisDepthSignal(outcomes) ==
    LET Contribution(o) == ScoreContribution(DecisionSpeed(o))
    IN  10 * SumSeq(MapSeq(Contribution, outcomes))

\* line 190 without its min(100, .)
CriticalThinkingUnclamped(outcomes) ==
    LET Rejections(o)    == Get(o.metrics.rejectionCount, 0)
        Modifications(o) == Get(o.metrics.modificationCount, 0)
    IN  10 * ((SumSeq(MapSeq(Modifications, outcomes)) * 10)
              + (SumSeq(MapSeq(Rejections, outcomes)) * 15))

CriticalThinkingSignal(outcomes) ==
    LET Rejections(o)    == Get(o.metrics.rejectionCount, 0)
        Modifications(o) == Get(o.metrics.modificationCount, 0)
        rejection_count    == SumSeq(MapSeq(Rejections, outcomes))
        modification_count == SumSeq(MapSeq(Modifications, outcomes))
    IN  10 * Min(100, (modification_count * 10) + (rejection_count * 15))

TestCultureSignal(outcomes) ==
    LET Change(o) == Max(0, Get(o.metrics.testCoverageChange, 0))
    IN  MeanOrZero(MapSeq(Change, outcomes))

CodeQualitySignal(interactions) ==
    LET Confidence(edit) == Get(edit, 70)
        Edits(i) == MapSeq(Confidence, i.modelResponse.proposedEdits)
    IN  MeanOrZero(Flatten(MapSeq(Edits, interactions)))

DecisionQualitySignal(outcomes) ==
    LET Before(o) == Get(o.metrics.testStatusBefore, 0)
        After(o)  == Get(o.metrics.testStatusAfter, 0)
        test_passes_before == SumSeq(MapSeq(Before, outcomes))
        test_passes_after  == SumSeq(MapSeq(After, outcomes))
    IN  IF test_passes_after > 0
        THEN Round1(FMin(100, FMul(FDivInt(test_passes_after, test_passes_before + 1),
                                   FFromInt(100))))
        ELSE 0

\* the six signals, each in tenths
ComputeSignals(interactions, outcomes) ==
    [contextQuality   |-> ContextQualitySignal(interactions),
     analysisDepth    |-> AnalysisDepthSignal(outcomes),
     criticalThinking |-> CriticalThinkingSignal(outcomes),
     testCulture      |-> TestCultureSignal(outcomes),
     codeQuality      |-> CodeQualitySignal(interactions),
     decisionQuality  |-> DecisionQualitySignal(outcomes)]

\* round(a * wa/100 + b * wb/100 [+ c * wc/100], 1) in tenths, evaluated left
\* to right in binary64; a, b, c in tenths
Weighted2(a, wa, b, wb) ==
    Round1(FAdd(FMul(FTenths(a), FDivInt(wa, 100)),
                FMul(FTenths(b), FDivInt(wb, 100))))

Weighted3(a, wa, b, wb, c, wc) ==
    Round1(FAdd(FAdd(FMul(FTenths(a), FDivInt(wa, 100)),
                     FMul(FTenths(b), FDivInt(wb, 100))),
                FMul(FTenths(c), FDivInt(wc, 100))))

\* composite scores held to the range of the signals
ComputeCompositeScoresClamped(signals) ==
    [aiLeverage    |-> Min(1000, Weighted2(signals.codeQuality, 40,
                                           signals.decisionQuality, 60)),
     problemSolver |-> Min(1000, Weighted3(signals.analysisDepth, 40,
                                           signals.criticalThinking, 35,
                                           signals.contextQuality, 25)),
     engineer      |-> Min(1000, Weighted2(signals.testCulture, 50,
                                           signals.codeQuality, 50))]

ComputeCompositeScores(signals) ==
    [aiLeverage    |-> Weighted2(signals.codeQuality, 40, signals.decisionQuality, 60),
     problemSolver |-> Weighted3(signals.analysisDepth, 40,
                                 signals.criticalThinking, 35,
                                 signals.contextQuality, 25),
     engineer      |-> Weighted2(signals.testCulture, 50, signals.codeQuality, 50)]

\* score >= threshold, the score in tenths
AtLeast(score, threshold) == FCmp(FTenths(score), FFromInt(threshold)) >= 0

\* thresholds that a score has to exceed
GenerateRecommendationStrict(scores) ==
    IF scores.problemSolver > 750 /\ scores.engineer > 750 THEN "HIRE"
    ELSE IF (scores.problemSolver > 600 /\ scores.engineer > 600)
            \/ scores.aiLeverage > 750
    THEN "INTERVIEW"
    ELSE "PASS"

\* the display markers in front of the three words are left out
GenerateRecommendation(scores) ==
    LET excellent_threshold == 75
        good_threshold      == 60
    IN  IF AtLeast(scores.problemSolver, excellent_threshold)
           /\ AtLeast(scores.engineer, excellent_threshold)
        THEN "HIRE"
        ELSE IF (AtLeast(scores.problemSolver, good_threshold)
                 /\ AtLeast(scores.engineer, good_threshold))
                \/ AtLeast(scores.aiLeverage, excellent_threshold)
        THEN "INTERVIEW"
        ELSE "PASS"

---------------------------------------------------------------------------
(* The state.                                                              *)
(*                                                                         *)
(* The two logs are the objects under interactions/ and outcomes/ of the   *)
(* bucket, in listing (key) order.  All calls are taken within one UTC     *)
(* day, so that a key is the pair <<candidateId, requestId>>.              *)

VARIABLES
    interactionLog,   \* objects under interactions/
    outcomeLog,       \* objects under outcomes/
    summaries,        \* metrics/{candidateId}/summary.json, per candidate
    summaryFresh,     \* see the metrics calculator below
    clock,            \* datetime.utcnow(), as a logical clock
    run,              \* one invocation of the metrics calculator per slot
    mcp               \* the MCP server: its log file and the tool call in hand

vars == <<interactionLog, outcomeLog, summaries, summaryFresh, clock, run, mcp>>

KeyRank(candidate_id) == IF candidate_id = Slashed THEN 3 ELSE 2 * candidate_id

KeyLess(k1, k2) ==
    \/ KeyRank(k1[1]) < KeyRank(k2[1])
    \/ (k1[1] = k2[1] /\ k1[2] < k2[2])

\* s3.put_object: the object replaces the one stored under the same key,
\* or takes its place in key order (the objects of "1/x" after those of "1"
\* and before those of "2")
PutObject(log, obj) ==
    LET before == SelectSeq(log, LAMBDA o : KeyLess(o.key, obj.key))
        after  == SelectSeq(log, LAMBDA o : KeyLess(obj.key, o.key))
    IN  before \o <<obj>> \o after

HasKey(log, key) == \E i \in 1..Len(log) : log[i].key = key

\* what a client may send as metrics: any of the fields may be missing
Metrics(speed, rejections, modifications, coverage, before, after) ==
    [decisionSpeed |-> speed, rejectionCount |-> rejections,
     modificationCount |-> modifications, testCoverageChange |-> coverage,
     testStatusBefore |-> before, testStatusAfter |-> after]

NoMetrics == Metrics(<<>>, <<>>, <<>>, <<>>, <<>>, <<>>)
ScenarioMetrics == Metrics(<<2500>>, <<1>>, <<2>>, <<5>>, <<3>>, <<5>>)
StrongMetrics == Metrics(<<6000>>, <<3>>, <<7>>, <<90>>, <<0>>, <<4>>)
SnapMetrics == Metrics(<<100>>, <<0>>, <<0>>, <<-10>>, <<5>>, <<0>>)
SomeMetrics == Metrics(<<600>>, <<>>, <<1>>, <<12>>, <<15>>, <<1>>)
SlowMetrics == Metrics(<<3000>>, <<2>>, <<>>, <<8>>, <<>>, <<2>>)

\* what the assistant may answer: proposed edits, each with a confidence
\* or without one
NoEdits == <<>>
SomeEdits == << <<90>>, <<>> >>
SureEdits == << <<95>> >>

\* a message by its length and the question indicators found in it
PlainMessage == [length |-> 250, indicators |-> 4]
LongerMessage == [length |-> 263, indicators |-> 4]
LongMessage == [length |-> 700, indicators |-> 3]
ShortMessage == [length |-> 40, indicators |-> 0]

NoSummary == [projectSummary |-> FALSE]

\* what the system as a whole is run on
LoggedMetrics == {ScenarioMetrics}
LoggedEdits == {NoEdits}
LoggedMessages == {PlainMessage}
LoggedContexts == {NoSummary}

---------------------------------------------------------------------------
(* interaction-handler and outcome-logger: one call each, as far as the    *)
(* log is concerned.                                                       *)

\* uuid.uuid4(): an identifier no stored interaction has
FreshRequestId == Len(interactionLog) + 1

\* _log_interaction: the object written, with its key
InteractionPayload(candidate_id, request_id, task_id, model_response, context_quality) ==
    [key            |-> <<candidate_id, request_id>>,
     requestId      |-> request_id,
     candidateId    |-> candidate_id,
     taskId         |-> task_id,
     modelResponse  |-> model_response,
     contextQuality |-> context_quality]

LogInteraction(candidate_token, task_id, user_message, ctx, proposed_edits) ==
    /\ Len(interactionLog) + Len(outcomeLog) < MaxRecords
    /\ ~Falsy(candidate_token) /\ ~Falsy(task_id) /\ user_message.length > 0
    /\ LET payload ==
               InteractionPayload(candidate_token, FreshRequestId, task_id,
                                  [proposedEdits |-> proposed_edits],
                                  ComputeContextQuality(user_message, ctx))
       IN  interactionLog' = PutObject(interactionLog, payload)
    /\ run' = [r \in Runs |-> [run[r] EXCEPT !.fresh = FALSE]]
    /\ summaryFresh' = [c \in Candidates |-> FALSE]
    /\ UNCHANGED <<outcomeLog, summaries, clock, mcp>>

\* _log_outcome: the object written, with its key
OutcomePayload(candidate_id, request_id, task_id, metrics) ==
    [key         |-> <<candidate_id, request_id>>,
     requestId   |-> request_id,
     candidateId |-> candidate_id,
     taskId      |-> task_id,
     metrics     |-> metrics]

LogOutcome(candidate_token, task_id, request_id, metrics) ==
    /\ ~Falsy(candidate_token) /\ ~Falsy(task_id) /\ ~Falsy(request_id)
    /\ LET payload == OutcomePayload(candidate_token, request_id, task_id, metrics)
       IN  /\ \/ HasKey(outcomeLog, payload.key)
              \/ Len(interactionLog) + Len(outcomeLog) < MaxRecords
           /\ outcomeLog' = PutObject(outcomeLog, payload)
    /\ run' = [r \in Runs |-> [run[r] EXCEPT !.fresh = FALSE]]
    /\ summaryFresh' = [c \in Candidates |-> FALSE]
    /\ UNCHANGED <<interactionLog, summaries, clock, mcp>>

---------------------------------------------------------------------------
(* metrics-calculator: lambda_handler, one step per Log Store operation    *)
(* and per stage of the computation.  A slot is a container that serves    *)
(* one invocation at a time and is used again after it has answered; the   *)
(* handler's locals are gone once it has returned.                         *)
(*                                                                         *)
(* Besides the handler's locals, a slot records what the invocation did:   *)
(* parsed (the body was JSON), lists (list operations issued), unread (per *)
(* fetch, the keys whose object could not be read or parsed at that time), *)
(* warnings (warnings logged for skipped objects), found (the lengths of   *)
(* the two fetched sequences, once both are fetched), puts                 *)
(* (summary writes completed) and fresh (no log write since the invocation *)
(* began).  summaryFresh says the same of the invocation that wrote a      *)
(* candidate's stored summary.                                             *)

IdleRun ==
    [pc |-> "idle", candidate_token |-> NONE, task_id |-> NONE,
     interactions |-> <<>>, outcomes |-> <<>>,
     signals |-> <<>>, scores |-> <<>>, recommendation |-> <<>>,
     metrics_summary |-> <<>>, response |-> <<>>,
     parsed |-> FALSE, lists |-> 0, unread |-> <<>>, warnings |-> 0,
     found |-> <<>>, puts |-> 0, fresh |-> TRUE]

\* _response, and the return that follows it
Return(r, status_code, body) ==
    [IdleRun EXCEPT !.pc = "done",
                    !.candidate_token = run[r].candidate_token,
                    !.task_id = run[r].task_id,
                    !.response = <<[statusCode |-> status_code, body |-> body]>>,
                    !.parsed = run[r].parsed,
                    !.lists = run[r].lists, !.unread = run[r].unread,
                    !.warnings = run[r].warnings, !.found = run[r].found,
                    !.puts = run[r].puts]

InvalidInput == [error |-> "candidateToken is required"]
NoData == [error |-> "No interactions or outcomes found for candidate"]
Unexpected == [error |-> "exception"]

\* the invocations that have yet to read the clock
Pending ==
    {r \in Runs : run[r].pc \in {"fetch_interactions", "fetch_outcomes",
                                 "signals", "scores", "recommend"}}

\* a further container is brought up only while the ones before it are busy
Available(r) ==
    /\ run[r].pc \in {"idle", "done"}
    /\ \A q \in Runs : q < r => run[q].pc \notin {"idle", "done"}

\* a check for None alone, which lets the empty string through
MissingTokenNoneOnly(candidate_token) == candidate_token = NONE

\* line 26
MissingToken(candidate_token) == Falsy(candidate_token)

\* lines 20-29: the body is parsed and the candidate token checked
Start(r, candidate_token, task_id) ==
    /\ Available(r)
    /\ clock + Cardinality(Pending) < MaxClock
    /\ run' = [run EXCEPT ![r] =
           IF MissingToken(candidate_token)
           THEN [IdleRun EXCEPT !.pc = "done", !.parsed = TRUE,
                                !.candidate_token = candidate_token,
                                !.task_id = task_id,
                                !.response = <<[statusCode |-> 400, body |-> InvalidInput]>>]
           ELSE [IdleRun EXCEPT !.pc = "fetch_interactions", !.parsed = TRUE,
                                !.candidate_token = candidate_token,
                                !.task_id = task_id]]
    /\ UNCHANGED <<interactionLog, outcomeLog, summaries, summaryFresh, clock, mcp>>

\* line 21 raises on a body that is not JSON: caught at line 70
StartMalformed(r) ==
    /\ Available(r)
    /\ run' = [run EXCEPT ![r] =
           [IdleRun EXCEPT !.pc = "done",
                           !.response = <<[statusCode |-> 500, body |-> Unexpected]>>]]
    /\ UNCHANGED <<interactionLog, outcomeLog, summaries, summaryFresh, clock, mcp>>

\* lines 86-103 and 116-133: the objects of the candidate, and of the task
\* when one is given, in listing order; an object of the candidate whose
\* get_object or json.loads raises is passed over
Fetch(log, candidate_id, task_id, unreadable) ==
    SelectSeq(log, LAMBDA obj :
        /\ PathHead(obj.key[1]) = candidate_id
        /\ obj.key \notin unreadable
        /\ (task_id = NONE \/ obj.taskId = task_id))

\* lines 100-101 and 130-131: one warning for each object passed over
Warnings(log, candidate_id, unreadable) ==
    Len(SelectSeq(log, LAMBDA obj :
        PathHead(obj.key[1]) = candidate_id /\ obj.key \in unreadable))

KeysOf(log) == {log[i].key : i \in 1..Len(log)}

\* a fetch that lets the exception of an unreadable object reach line 70
FetchInteractionsAborting(r, unreadable) ==
    /\ run[r].pc = "fetch_interactions"
    /\ LET warnings == Warnings(interactionLog, run[r].candidate_token, unreadable)
           fetched  == [run[r] EXCEPT
                           !.pc = "fetch_outcomes",
                           !.lists = @ + 1,
                           !.unread = Append(@, unreadable),
                           !.interactions =
                               Fetch(interactionLog, run[r].candidate_token,
                                     run[r].task_id, unreadable)]
       IN  run' = [run EXCEPT ![r] =
               IF warnings > 0
               THEN [IdleRun EXCEPT
                        !.pc = "done",
                        !.candidate_token = fetched.candidate_token,
                        !.task_id = fetched.task_id,
                        !.response = <<[statusCode |-> 500, body |-> Unexpected]>>,
                        !.parsed = fetched.parsed,
                        !.lists = fetched.lists, !.unread = fetched.unread]
               ELSE fetched]
    /\ UNCHANGED <<interactionLog, outcomeLog, summaries, summaryFresh, clock, mcp>>

FetchInteractions(r, unreadable) ==
    /\ run[r].pc = "fetch_interactions"
    /\ run' = [run EXCEPT ![r].pc = "fetch_outcomes",
                          ![r].lists = @ + 1,
                          ![r].unread = Append(@, unreadable),
                          ![r].warnings =
                              @ + Warnings(interactionLog, run[r].candidate_token,
                                           unreadable),
                          ![r].interactions =
                              Fetch(interactionLog, run[r].candidate_token,
                                    run[r].task_id, unreadable)]
    /\ UNCHANGED <<interactionLog, outcomeLog, summaries, summaryFresh, clock, mcp>>

\* a check that needs both sequences to be empty
NothingFoundBoth(interactions, outcomes) == interactions = <<>> /\ outcomes = <<>>

\* line 35
NothingFound(interactions, outcomes) == interactions = <<>> \/ outcomes = <<>>

FetchOutcomes(r, unreadable) ==
    /\ run[r].pc = "fetch_outcomes"
    /\ LET outcomes == Fetch(outcomeLog, run[r].candidate_token, run[r].task_id,
                             unreadable)
           fetched  == [run[r] EXCEPT !.lists = @ + 1, !.outcomes = outcomes,
                                      !.unread = Append(@, unreadable),
                                      !.warnings =
                                          @ + Warnings(outcomeLog,
                                                       run[r].candidate_token,
                                                       unreadable),
                                      !.found = << <<Len(run[r].interactions),
                                                     Len(outcomes)>> >>]
       IN  run' = [run EXCEPT ![r] =
               IF NothingFound(run[r].interactions, outcomes)
               THEN [IdleRun EXCEPT !.pc = "done",
                        !.candidate_token = fetched.candidate_token,
                        !.task_id = fetched.task_id,
                        !.response = <<[statusCode |-> 400, body |-> NoData]>>,
                        !.parsed = fetched.parsed,
                        !.lists = fetched.lists, !.unread = fetched.unread,
                        !.warnings = fetched.warnings, !.found = fetched.found,
                        !.puts = fetched.puts]
               ELSE [fetched EXCEPT !.pc = "signals"]]
    /\ UNCHANGED <<interactionLog, outcomeLog, summaries, summaryFresh, clock, mcp>>

\* the paginator raises: caught at line 70
FetchFails(r) ==
    /\ run[r].pc \in {"fetch_interactions", "fetch_outcomes"}
    /\ run' = [run EXCEPT ![r] = [Return(r, 500, Unexpected) EXCEPT !.lists = @ + 1]]
    /\ UNCHANGED <<interactionLog, outcomeLog, summaries, summaryFresh, clock, mcp>>

Signals(r) ==
    /\ run[r].pc = "signals"
    /\ run' = [run EXCEPT ![r].pc = "scores",
                          ![r].signals =
                              <<ComputeSignals(run[r].interactions, run[r].outcomes)>>]
    /\ UNCHANGED <<interactionLog, outcomeLog, summaries, summaryFresh, clock, mcp>>

Scores(r) ==
    /\ run[r].pc = "scores"
    /\ run' = [run EXCEPT ![r].pc = "recommend",
                          ![r].scores = <<ComputeCompositeScores(run[r].signals[1])>>]
    /\ UNCHANGED <<interactionLog, outcomeLog, summaries, summaryFresh, clock, mcp>>

\* a summary that adds its counts to those of the stored one
MetricsSummaryMerged(r, recommendation) ==
    LET stored == summaries[run[r].candidate_token]
    IN  [candidateId      |-> run[r].candidate_token,
         taskId           |-> IF Falsy(run[r].task_id) THEN AllTasks ELSE run[r].task_id,
         timestamp        |-> clock,
         interactionCount |-> Len(run[r].interactions)
                                  + (IF stored = <<>> THEN 0
                                     ELSE stored[1].interactionCount),
         outcomeCount     |-> Len(run[r].outcomes)
                                  + (IF stored = <<>> THEN 0
                                     ELSE stored[1].outcomeCount),
         signals          |-> run[r].signals[1],
         scores           |-> run[r].scores[1],
         recommendation   |-> recommendation]

\* lines 50-59
MetricsSummary(r, recommendation) ==
    [candidateId      |-> run[r].candidate_token,
     taskId           |-> IF Falsy(run[r].task_id) THEN AllTasks ELSE run[r].task_id,
     timestamp        |-> clock,
     interactionCount |-> Len(run[r].interactions),
     outcomeCount     |-> Len(run[r].outcomes),
     signals          |-> run[r].signals[1],
     scores           |-> run[r].scores[1],
     recommendation   |-> recommendation]

Recommend(r) ==
    /\ run[r].pc = "recommend"
    /\ LET recommendation == GenerateRecommendation(run[r].scores[1])
       IN  run' = [run EXCEPT ![r].pc = "save",
                              ![r].recommendation = <<recommendation>>,
                              ![r].metrics_summary = <<MetricsSummary(r, recommendation)>>]
    /\ clock' = clock + 1
    /\ UNCHANGED <<interactionLog, outcomeLog, summaries, summaryFresh, mcp>>

\* a write that gives way to a stored summary of a later timestamp
SaveMetricsSummaryNewest(r) ==
    /\ run[r].pc = "save"
    /\ LET stored == summaries[run[r].candidate_token]
           keep   == stored # <<>>
                       /\ stored[1].timestamp > run[r].metrics_summary[1].timestamp
       IN  /\ summaries' = [summaries EXCEPT ![run[r].candidate_token] =
                                IF keep THEN stored ELSE run[r].metrics_summary]
           /\ summaryFresh' = [summaryFresh EXCEPT ![run[r].candidate_token] =
                                  IF keep THEN @ ELSE run[r].fresh]
    /\ run' = [run EXCEPT ![r].pc = "respond", ![r].puts = @ + 1]
    /\ UNCHANGED <<interactionLog, outcomeLog, clock, mcp>>

\* lines 275-284: the object of the candidate is replaced as a whole
SaveMetricsSummary(r) ==
    /\ run[r].pc = "save"
    /\ summaries' = [summaries EXCEPT ![run[r].candidate_token] = run[r].metrics_summary]
    /\ summaryFresh' = [summaryFresh EXCEPT ![run[r].candidate_token] = run[r].fresh]
    /\ run' = [run EXCEPT ![r].pc = "respond", ![r].puts = @ + 1]
    /\ UNCHANGED <<interactionLog, outcomeLog, clock, mcp>>

\* a failed write that is logged and passed over
SaveFailsSwallowed(r) ==
    /\ run[r].pc = "save"
    /\ run' = [run EXCEPT ![r].pc = "respond"]
    /\ UNCHANGED <<interactionLog, outcomeLog, summaries, summaryFresh, clock, mcp>>

\* put_object raises: caught at line 70
SaveFails(r) ==
    /\ run[r].pc = "save"
    /\ run' = [run EXCEPT ![r] = Return(r, 500, Unexpected)]
    /\ UNCHANGED <<interactionLog, outcomeLog, summaries, summaryFresh, clock, mcp>>

\* an answer that is the stored summary, task identifier and counts included
RespondWithSummary(r) ==
    /\ run[r].pc = "respond"
    /\ run' = [run EXCEPT ![r] = Return(r, 200, run[r].metrics_summary[1])]
    /\ UNCHANGED <<interactionLog, outcomeLog, summaries, summaryFresh, clock, mcp>>

\* lines 63-68
Respond(r) ==
    /\ run[r].pc = "respond"
    /\ run' = [run EXCEPT ![r] =
           Return(r, 200, [candidateId    |-> run[r].candidate_token,
                           signals        |-> run[r].signals[1],
                           scores         |-> run[r].scores[1],
                           recommendation |-> run[r].recommendation[1]])]
    /\ UNCHANGED <<interactionLog, outcomeLog, summaries, summaryFresh, clock, mcp>>

---------------------------------------------------------------------------
(* candidate-eval-mcp: the tools evaluation_plan, evaluation_propose_edits *)
(* and finalize_project, one call at a time (the server is a stdio         *)
(* server).  events is the JSONL log file; returned is the JSON string     *)
(* handed back, by its kind and by the request_id it carries or lacks.     *)

Tools == {"evaluation_plan", "evaluation_propose_edits", "finalize_project"}

\* tool calls made
MaxCalls == 2

IdleMcp ==
    [events |-> <<>>, pc |-> "idle", tool |-> "", request_id |-> NONE,
     outcome |-> "", returned |-> <<>>, calls |-> 0]

\* the tools that check their arguments before anything else
Validating == {"evaluation_plan", "evaluation_propose_edits"}

\* _make_request_id: uuid4, an identifier of no call before
MakeRequestId == mcp.calls + 1

\* log_event: the line is appended, or an OSError is swallowed and nothing
\* is written
LogEvent(events, event, written) == IF written THEN Append(events, event) ELSE events

\* _build_response: the result with the request_id put into it
BuildResponse(result, request_id) == [kind |-> result, request_id |-> <<request_id>>]

\* the tool is called; arguments that fail the checks are answered at once
\* by json.dumps({"error": ...})
ToolCall(tool, valid) ==
    /\ mcp.pc \in {"idle", "returned"}
    /\ mcp.calls < MaxCalls
    /\ mcp' = IF tool \in Validating /\ ~valid
              THEN [mcp EXCEPT !.pc = "returned", !.tool = tool,
                               !.request_id = NONE, !.outcome = "",
                               !.calls = @ + 1,
                               !.returned = <<[kind |-> "error", request_id |-> <<>>]>>]
              ELSE [mcp EXCEPT !.pc = "start", !.tool = tool,
                               !.request_id = MakeRequestId, !.outcome = "",
                               !.calls = @ + 1,
                               !.returned = <<>>]
    /\ UNCHANGED <<interactionLog, outcomeLog, summaries, summaryFresh, clock, run>>

\* _log_call_start
LogCallStart(written) ==
    /\ mcp.pc = "start"
    /\ mcp' = [mcp EXCEPT !.pc = "backend",
                          !.events = LogEvent(@, [request_id |-> mcp.request_id,
                                                  tool |-> mcp.tool,
                                                  status |-> "start"], written)]
    /\ UNCHANGED <<interactionLog, outcomeLog, summaries, summaryFresh, clock, run>>

\* the try block up to the result: the stub result or that of the backend
\* ("ok"), an HTTPError, or any other exception (a timeout, a body that is
\* not JSON, a result that is not an object)
BackendOutcomes == {"ok", "HTTPError", "Exception"}

CallBackend(outcome) ==
    /\ mcp.pc = "backend"
    /\ mcp' = [mcp EXCEPT !.pc = "end", !.outcome = outcome]
    /\ UNCHANGED <<interactionLog, outcomeLog, summaries, summaryFresh, clock, run>>

\* _log_call_end, with "ok" after a result and "error" in the handlers
LogCallEnd(written) ==
    /\ mcp.pc = "end"
    /\ mcp' = [mcp EXCEPT !.pc = "respond",
                          !.events = LogEvent(@, [request_id |-> mcp.request_id,
                                                  tool |-> mcp.tool,
                                                  status |-> IF mcp.outcome = "ok"
                                                             THEN "ok" ELSE "error"],
                                              written)]
    /\ UNCHANGED <<interactionLog, outcomeLog, summaries, summaryFresh, clock, run>>

\* the return of the try block or of a handler
ToolReturn ==
    /\ mcp.pc = "respond"
    /\ mcp' = [mcp EXCEPT !.pc = "returned",
                          !.returned = <<BuildResponse(IF mcp.outcome = "ok"
                                                       THEN "result" ELSE "error",
                                                       mcp.request_id)>>]
    /\ UNCHANGED <<interactionLog, outcomeLog, summaries, summaryFresh, clock, run>>

NextTools ==
    \/ \E tool \in Tools, valid \in BOOLEAN : ToolCall(tool, valid)
    \/ \E written \in BOOLEAN : LogCallStart(written)
    \/ \E outcome \in BackendOutcomes : CallBackend(outcome)
    \/ \E written \in BOOLEAN : LogCallEnd(written)
    \/ ToolReturn

---------------------------------------------------------------------------

Init ==
    /\ interactionLog = <<>>
    /\ outcomeLog = <<>>
    /\ summaries = [c \in Candidates |-> <<>>]
    /\ summaryFresh = [c \in Candidates |-> TRUE]
    /\ clock = 0
    /\ mcp = IdleMcp
    /\ run = [r \in Runs |-> IdleRun]

\* the bodies sent to the calculator
Bodies ==
    {<<c, t>> : c \in Candidates, t \in Tasks \cup {NONE}}
        \cup {<<NONE, NONE>>, <<EMPTY, 1>>, <<1, EMPTY>>}

\* the calculator serves one invocation at a time, and every object of the
\* logs is read
Sequential == {1}

Next ==
    \/ \E c \in Candidates, t \in Tasks, m \in LoggedMessages,
          x \in LoggedContexts, e \in LoggedEdits :
          LogInteraction(c, t, m, x, e)
    \/ \E c \in Candidates, t \in Tasks, q \in RequestIds, m \in LoggedMetrics :
          LogOutcome(c, t, q, m)
    \/ \E r \in Sequential, b \in Bodies : Start(r, b[1], b[2])
    \/ \E r \in Sequential : StartMalformed(r)
    \/ \E r \in Sequential : FetchInteractions(r, {})
    \/ \E r \in Sequential : FetchOutcomes(r, {})
    \/ \E r \in Sequential : FetchFails(r)
    \/ \E r \in Sequential : Signals(r)
    \/ \E r \in Sequential : Scores(r)
    \/ \E r \in Sequential : Recommend(r)
    \/ \E r \in Sequential : SaveMetricsSummary(r)
    \/ \E r \in Sequential : SaveFails(r)
    \/ \E r \in Sequential : Respond(r)

Spec == Init /\ [][Next]_vars

---------------------------------------------------------------------------
(* The computation alone: _compute_signals, _compute_composite_scores and  *)
(* _generate_recommendation applied to fetched sequences of any content,   *)
(* the empty ones included (the functions accept them).                    *)

MaxFetchedInteractions == 3
MaxFetchedOutcomes == 2

SampleInteraction(user_message, proposed_edits) ==
    InteractionPayload(1, 1, 1, [proposedEdits |-> proposed_edits],
                       ComputeContextQuality(user_message, NoSummary))

SampleInteractions ==
    {SampleInteraction(PlainMessage, NoEdits),
     SampleInteraction(LongerMessage, NoEdits),
     SampleInteraction(LongMessage, SureEdits),
     SampleInteraction(ShortMessage, SomeEdits)}

SampleOutcomes ==
    {OutcomePayload(1, 1, 1, m) :
        m \in {NoMetrics, ScenarioMetrics, StrongMetrics, SnapMetrics,
               SomeMetrics, SlowMetrics}}

SeqsUpTo(S, n) == UNION {[1..k -> S] : k \in 0..n}

InitCompute ==
    /\ interactionLog = <<>>
    /\ outcomeLog = <<>>
    /\ summaries = [c \in Candidates |-> <<>>]
    /\ summaryFresh = [c \in Candidates |-> TRUE]
    /\ clock = 0
    /\ mcp = IdleMcp
    /\ \E i \in SeqsUpTo(SampleInteractions, MaxFetchedInteractions),
          o \in SeqsUpTo(SampleOutcomes, MaxFetchedOutcomes) :
          run = [r \in Runs |->
                    IF r = 1
                    THEN [IdleRun EXCEPT !.pc = "signals", !.parsed = TRUE,
                                         !.candidate_token = 1,
                                         !.interactions = i, !.outcomes = o]
                    ELSE IdleRun]

NextCompute == Signals(1) \/ Scores(1) \/ Recommend(1)

SpecCompute == InitCompute /\ [][NextCompute]_vars

(* The recommendation alone, on score triples around the two thresholds.   *)

ScoreGrid == {0, 599, 600, 601, 749, 750, 751, 1300}

InitRecommend ==
    /\ interactionLog = <<>>
    /\ outcomeLog = <<>>
    /\ summaries = [c \in Candidates |-> <<>>]
    /\ summaryFresh = [c \in Candidates |-> TRUE]
    /\ clock = 0
    /\ mcp = IdleMcp
    /\ \E a \in ScoreGrid, p \in ScoreGrid, e \in ScoreGrid :
          run = [r \in Runs |->
                    IF r = 1
                    THEN [IdleRun EXCEPT
                            !.pc = "recommend", !.parsed = TRUE,
                            !.candidate_token = 1,
                            !.signals = <<ComputeSignals(<<>>, <<>>)>>,
                            !.scores = <<[aiLeverage |-> a, problemSolver |-> p,
                                          engineer |-> e]>>]
                    ELSE IdleRun]

NextRecommend == Recommend(1)

SpecRecommend == InitRecommend /\ [][NextRecommend]_vars

---------------------------------------------------------------------------
(* The calculator alone on two containers, over logs that hold an          *)
(* interaction and an outcome of each candidate: invocations for the same  *)
(* candidate or for different ones, with a task identifier or without,     *)
(* overlap in every way.                                                   *)

FilledInteractionLog ==
    LET Logged(c) == InteractionPayload(c, c, 1, [proposedEdits |-> NoEdits],
                                        ComputeContextQuality(PlainMessage, NoSummary))
    IN  PutObject(PutObject(<<>>, Logged(2)), Logged(1))

FilledOutcomeLog ==
    PutObject(PutObject(<<>>, OutcomePayload(2, 2, 1, SomeMetrics)),
              OutcomePayload(1, 1, 1, ScenarioMetrics))

InitConcurrent ==
    /\ interactionLog = FilledInteractionLog
    /\ outcomeLog = FilledOutcomeLog
    /\ summaries = [c \in Candidates |-> <<>>]
    /\ summaryFresh = [c \in Candidates |-> TRUE]
    /\ clock = 0
    /\ mcp = IdleMcp
    /\ run = [r \in Runs |-> IdleRun]

ConcurrentBodies == {<<1, NONE>>, <<1, 1>>, <<2, NONE>>, <<2, 2>>}

NextConcurrent ==
    \/ \E r \in Runs, b \in ConcurrentBodies : Start(r, b[1], b[2])
    \/ \E r \in Runs : FetchInteractions(r, {})
    \/ \E r \in Runs : FetchOutcomes(r, {})
    \/ \E r \in Runs : Signals(r)
    \/ \E r \in Runs : Scores(r)
    \/ \E r \in Runs : Recommend(r)
    \/ \E r \in Runs : SaveMetricsSummary(r)
    \/ \E r \in Runs : Respond(r)

SpecConcurrent == InitConcurrent /\ [][NextConcurrent]_vars

---------------------------------------------------------------------------
(* The calculator on logs of three interactions and three outcomes, of two *)
(* candidates and two tasks, any of which may fail to be read or parsed    *)
(* when a run asks for it.                                                 *)

MixedInteractionLog ==
    LET Logged(c, q, t, m, e) ==
            InteractionPayload(c, q, t, [proposedEdits |-> e],
                               ComputeContextQuality(m, NoSummary))
    IN  PutObject(PutObject(PutObject(<<>>,
            Logged(2, 3, 1, ShortMessage, SomeEdits)),
            Logged(1, 2, 2, LongMessage, SureEdits)),
            Logged(1, 1, 1, PlainMessage, NoEdits))

MixedOutcomeLog ==
    PutObject(PutObject(PutObject(<<>>,
        OutcomePayload(1, 2, 2, SlowMetrics)),
        OutcomePayload(2, 3, 1, SomeMetrics)),
        OutcomePayload(1, 1, 1, ScenarioMetrics))

InitFetch ==
    /\ interactionLog = MixedInteractionLog
    /\ outcomeLog = MixedOutcomeLog
    /\ summaries = [c \in Candidates |-> <<>>]
    /\ summaryFresh = [c \in Candidates |-> TRUE]
    /\ clock = 0
    /\ mcp = IdleMcp
    /\ run = [r \in Runs |-> IdleRun]

FetchBodies == {<<1, NONE>>, <<1, 1>>, <<1, 2>>, <<2, NONE>>, <<2, 2>>}

NextFetch ==
    \/ \E r \in Sequential, b \in FetchBodies : Start(r, b[1], b[2])
    \/ \E r \in Sequential, u \in SUBSET KeysOf(interactionLog) :
          FetchInteractions(r, u)
    \/ \E r \in Sequential, u \in SUBSET KeysOf(outcomeLog) : FetchOutcomes(r, u)
    \/ \E r \in Sequential : Signals(r)
    \/ \E r \in Sequential : Scores(r)
    \/ \E r \in Sequential : Recommend(r)
    \/ \E r \in Sequential : SaveMetricsSummary(r)
    \/ \E r \in Sequential : Respond(r)

SpecFetch == InitFetch /\ [][NextFetch]_vars

---------------------------------------------------------------------------
(* The calculator on logs that hold, besides the objects of candidates 1   *)
(* and 2, an interaction and an outcome logged for the candidate "1/x".    *)

SlashedInteractionLog ==
    PutObject(MixedInteractionLog,
              InteractionPayload(Slashed, 4, 1, [proposedEdits |-> NoEdits],
                                 ComputeContextQuality(LongerMessage, NoSummary)))

SlashedOutcomeLog ==
    PutObject(MixedOutcomeLog, OutcomePayload(Slashed, 4, 1, StrongMetrics))

InitPaths ==
    /\ interactionLog = SlashedInteractionLog
    /\ outcomeLog = SlashedOutcomeLog
    /\ summaries = [c \in Candidates |-> <<>>]
    /\ summaryFresh = [c \in Candidates |-> TRUE]
    /\ clock = 0
    /\ mcp = IdleMcp
    /\ run = [r \in Runs |-> IdleRun]

PathBodies == {<<1, NONE>>, <<1, 1>>, <<2, NONE>>, <<Slashed, NONE>>}

NextPaths ==
    \/ \E r \in Sequential, b \in PathBodies : Start(r, b[1], b[2])
    \/ \E r \in Sequential, u \in {{}, {<<1, 1>>}} : FetchInteractions(r, u)
    \/ \E r \in Sequential, u \in {{}, {<<1, 1>>}} : FetchOutcomes(r, u)
    \/ \E r \in Sequential : Signals(r)
    \/ \E r \in Sequential : Scores(r)
    \/ \E r \in Sequential : Recommend(r)
    \/ \E r \in Sequential : SaveMetricsSummary(r)
    \/ \E r \in Sequential : Respond(r)

SpecPaths == InitPaths /\ [][NextPaths]_vars

---------------------------------------------------------------------------
(* The interaction handler alone, on messages of several lengths and       *)
(* numbers of question indicators, with a project summary and without.     *)

ClarityLengths == {7, 40, 263, 500, 1250}
ClarityIndicators == {0, 1, 4, 6}

NextClarity ==
    \E n \in ClarityLengths, q \in ClarityIndicators, x \in BOOLEAN :
        LogInteraction(1, 1, [length |-> n, indicators |-> q],
                       [projectSummary |-> x], NoEdits)

SpecClarity == Init /\ [][NextClarity]_vars

(* The MCP server alone.                                                   *)

SpecTools == Init /\ [][NextTools]_vars

---------------------------------------------------------------------------
(* Properties.  Signals and scores are in tenths: 64.2 is 642.             *)

\* the invocations that have computed their signals and still hold them
Computed == {r \in Runs : run[r].signals # <<>>}

\* the bucket table of analysis depth
BucketOf(speed) ==
    IF speed < 500 THEN 20
    ELSE IF speed < 2000 THEN 50
    ELSE IF speed < 5000 THEN 80
    ELSE 100

Abs(i) == IF i < 0 THEN -i ELSE i

\* C1: a run with a candidate identifier whose fetched interactions or
\* fetched outcomes are empty ends in the no-data error with status 400,
\* answers without signals, scores or recommendation and writes no summary;
\* only a run that found both goes on to compute and to write.
NoDataIsRejected ==
    \A r \in Runs :
        /\ run[r].pc \in {"signals", "scores", "recommend", "save", "respond"}
              => run[r].interactions # <<>> /\ run[r].outcomes # <<>>
        /\ run[r].puts > 0
              => /\ run[r].found # <<>>
                 /\ run[r].found[1][1] > 0 /\ run[r].found[1][2] > 0
        /\ (run[r].found # <<>>
              /\ (run[r].found[1][1] = 0 \/ run[r].found[1][2] = 0))
              => /\ ~Falsy(run[r].candidate_token)
                 /\ run[r].pc = "done"
                 /\ run[r].response = <<[statusCode |-> 400, body |-> NoData]>>
                 /\ DOMAIN run[r].response[1].body = {"error"}
                 /\ run[r].puts = 0

\* a run that found an interaction and no outcome has been rejected, the
\* summary of an earlier run of the candidate still stored
NoDataRejected ==
    \E r \in Runs :
        /\ run[r].pc = "done"
        /\ run[r].found = << <<1, 0>> >>
        /\ run[r].response = <<[statusCode |-> 400, body |-> NoData]>>
        /\ summaries[run[r].candidate_token] # <<>>

\* C2: a run whose body parsed and whose candidate identifier is missing or
\* empty has ended with status 400 and the invalid-input error, which is not
\* the no-data error, having issued no list operation and written no summary.
MissingCandidateIsRejected ==
    \A r \in Runs :
        (run[r].pc # "idle" /\ run[r].parsed /\ Falsy(run[r].candidate_token))
            => /\ run[r].pc = "done"
               /\ run[r].response = <<[statusCode |-> 400, body |-> InvalidInput]>>
               /\ run[r].response[1].body # NoData
               /\ run[r].lists = 0
               /\ run[r].found = <<>>
               /\ run[r].puts = 0

\* a run with the empty string for a candidate identifier has been rejected
EmptyCandidateRejected ==
    \E r \in Runs :
        /\ run[r].pc = "done"
        /\ run[r].parsed
        /\ run[r].candidate_token = EMPTY
        /\ run[r].response = <<[statusCode |-> 400, body |-> InvalidInput]>>

\* C3: the recommendation is HIRE iff problemSolver >= 75 and engineer >= 75,
\* INTERVIEW iff that fails and (problemSolver >= 60 and engineer >= 60, or
\* aiLeverage >= 75), PASS iff neither holds; it is exactly one of the three,
\* and each of the three is returned for some triple.
RecommendationTable ==
    /\ \A r \in Runs :
          run[r].recommendation # <<>> =>
              LET s   == run[r].scores[1]
                  rec == run[r].recommendation[1]
                  hire == s.problemSolver >= 750 /\ s.engineer >= 750
                  interview ==
                      /\ ~hire
                      /\ \/ s.problemSolver >= 600 /\ s.engineer >= 600
                         \/ s.aiLeverage >= 750
              IN  /\ rec \in {"HIRE", "INTERVIEW", "PASS"}
                  /\ rec = "HIRE" <=> hire
                  /\ rec = "INTERVIEW" <=> interview
                  /\ rec = "PASS" <=> (~hire /\ ~interview)
    /\ \A rec \in {"HIRE", "INTERVIEW", "PASS"} :
          \E t \in {<<0, 750, 750>>, <<750, 0, 0>>, <<0, 0, 0>>} :
              GenerateRecommendation([aiLeverage |-> t[1], problemSolver |-> t[2],
                                      engineer |-> t[3]]) = rec

\* INTERVIEW has been returned on the strength of aiLeverage alone, the
\* score exactly at the threshold
InterviewOnLeverage ==
    \E r \in Runs :
        /\ run[r].pc = "save"
        /\ run[r].recommendation = <<"INTERVIEW">>
        /\ run[r].scores[1].aiLeverage = 750
        /\ run[r].scores[1].problemSolver < 600

MissingSpeedCountsFifty ==
    \A r \in Computed :
        LET outcomes == run[r].outcomes
            Contribution(o) == IF o.metrics.decisionSpeed = <<>> THEN 50
                               ELSE BucketOf(o.metrics.decisionSpeed[1])
        IN  run[r].signals[1].analysisDepth
                = 10 * SumSeq(MapSeq(Contribution, outcomes))

\* C5: an outcome without a decision speed is treated as having speed 2000,
\* which lies in [2000, 5000), and contributes 80 to analysisDepth.
MissingSpeedCountsEighty ==
    \A r \in Computed :
        LET outcomes == run[r].outcomes
            Contribution(o) == IF o.metrics.decisionSpeed = <<>> THEN 80
                               ELSE BucketOf(o.metrics.decisionSpeed[1])
            AsTwoThousand(o) == BucketOf(Get(o.metrics.decisionSpeed, 2000))
        IN  /\ run[r].signals[1].analysisDepth
                   = 10 * SumSeq(MapSeq(Contribution, outcomes))
            /\ run[r].signals[1].analysisDepth
                   = 10 * SumSeq(MapSeq(AsTwoThousand, outcomes))

\* a single outcome without a decision speed has given 80
MissingSpeedSeen ==
    \E r \in Computed :
        /\ Len(run[r].outcomes) = 1
        /\ run[r].outcomes[1].metrics.decisionSpeed = <<>>
        /\ run[r].signals[1].analysisDepth = 800

\* C6 as stated: contextQuality lies in [0, 100] and is the exact mean of
\* the stored clarity scores, 0 for no interactions.
ContextQualityIsExactMean ==
    \A r \in Computed :
        LET interactions == run[r].interactions
            n  == Len(interactions)
            cq == run[r].signals[1].contextQuality
            total == SumSeq([i \in 1..n |->
                                Get(interactions[i].contextQuality.clarityScore, 0)])
        IN  /\ 0 <= cq /\ cq <= 1000
            /\ n = 0 => cq = 0
            /\ n > 0 => n * cq = 10 * total

\* C6: contextQuality lies in [0, 100] and is the mean of the stored clarity
\* scores rounded to one decimal place (within 0.05 of the mean), 0 for no
\* interactions.
ContextQualityIsRoundedMean ==
    \A r \in Computed :
        LET interactions == run[r].interactions
            n  == Len(interactions)
            cq == run[r].signals[1].contextQuality
            total == SumSeq([i \in 1..n |->
                                Get(interactions[i].contextQuality.clarityScore, 0)])
        IN  /\ 0 <= cq /\ cq <= 1000
            /\ n = 0 => cq = 0
            /\ n > 0 => 2 * Abs(n * cq - 10 * total) <= n

\* clarity scores 80, 81, 81 have given 80.7
ContextQualityRounded ==
    \E r \in Computed :
        /\ Len(run[r].interactions) = 3
        /\ \A i \in 1..3 :
              run[r].interactions[i].contextQuality.clarityScore
                  = (IF i = 1 THEN <<80>> ELSE <<81>>)
        /\ run[r].signals[1].contextQuality = 807

\* C7: criticalThinking is min(100, 10 * the modifications of all outcomes
\* + 15 * the rejections of all outcomes), a missing count being 0, and it
\* never exceeds 100.
CriticalThinkingIsClamped ==
    \A r \in Computed :
        LET outcomes == run[r].outcomes
            n == Len(outcomes)
            modifications ==
                SumSeq([i \in 1..n |-> Get(outcomes[i].metrics.modificationCount, 0)])
            rejections ==
                SumSeq([i \in 1..n |-> Get(outcomes[i].metrics.rejectionCount, 0)])
            raw == 10 * modifications + 15 * rejections
            ct  == run[r].signals[1].criticalThinking
        IN  /\ ct = (IF raw > 100 THEN 1000 ELSE 10 * raw)
            /\ ct <= 1000

\* modifications and rejections worth more than 100 have given 100, one of
\* the outcomes without a count
CriticalThinkingCapped ==
    \E r \in Computed :
        /\ \E i \in 1..Len(run[r].outcomes) :
              /\ run[r].outcomes[i].metrics.modificationCount = <<7>>
              /\ run[r].outcomes[i].metrics.rejectionCount = <<3>>
        /\ \E i \in 1..Len(run[r].outcomes) :
              run[r].outcomes[i].metrics.modificationCount = <<>>
        /\ run[r].signals[1].criticalThinking = 1000

\* C8: aiLeverage = 0.4 codeQuality + 0.6 decisionQuality, problemSolver =
\* 0.4 analysisDepth + 0.35 criticalThinking + 0.25 contextQuality and
\* engineer = 0.5 testCulture + 0.5 codeQuality, each rounded to one decimal
\* place (within 0.05 of the sum) and not clamped, above 100 included.
CompositeScoresAreWeightedSums ==
    \A r \in Computed :
        run[r].scores # <<>> =>
            LET g == run[r].signals[1]
                s == run[r].scores[1]
            IN  /\ Abs(10 * s.aiLeverage
                       - (4 * g.codeQuality + 6 * g.decisionQuality)) <= 5
                /\ Abs(100 * s.problemSolver
                       - (40 * g.analysisDepth + 35 * g.criticalThinking
                          + 25 * g.contextQuality)) <= 50
                /\ Abs(10 * s.engineer
                       - (5 * g.testCulture + 5 * g.codeQuality)) <= 5

\* a problemSolver above 100, from an analysisDepth above 100
ProblemSolverPastHundred ==
    \E r \in Computed :
        /\ run[r].scores # <<>>
        /\ run[r].signals[1].analysisDepth > 1000
        /\ run[r].scores[1].problemSolver > 1000

\* the run of the scenario: one interaction with clarity score 80 and no
\* proposed edits, one outcome with the metrics of the scenario, all
\* computed and not yet answered
Scenario(r) ==
    /\ run[r].pc \in {"save", "respond"}
    /\ Len(run[r].interactions) = 1
    /\ run[r].interactions[1].contextQuality.clarityScore = <<80>>
    /\ run[r].interactions[1].modelResponse.proposedEdits = <<>>
    /\ Len(run[r].outcomes) = 1
    /\ run[r].outcomes[1].metrics
           = Metrics(<<2500>>, <<1>>, <<2>>, <<5>>, <<3>>, <<5>>)

ScenarioSignals ==
    [contextQuality |-> 800, analysisDepth |-> 800, criticalThinking |-> 350,
     testCulture |-> 50, codeQuality |-> 0, decisionQuality |-> 1000]

\* C9 as stated: the scenario yields the signals 80.0, 80.0, 35.0, 5.0, 0,
\* 100.0, the scores aiLeverage 60.0, problemSolver 64.3, engineer 2.5 and
\* the recommendation PASS.
ScenarioYieldsSixtyFourThree ==
    \A r \in Runs :
        Scenario(r) =>
            /\ run[r].signals = <<ScenarioSignals>>
            /\ run[r].scores = <<[aiLeverage |-> 600, problemSolver |-> 643,
                                  engineer |-> 25]>>
            /\ run[r].recommendation = <<"PASS">>

\* C9: the scenario yields the signals 80.0, 80.0, 35.0, 5.0, 0, 100.0, the
\* scores aiLeverage 60.0, problemSolver 64.2 (the sum is 64.25 exactly and
\* the tie goes to the even digit), engineer 2.5 and the recommendation
\* PASS, in the summary and in the answer alike.
ScenarioYieldsSixtyFourTwo ==
    \A r \in Runs :
        Scenario(r) =>
            /\ run[r].signals = <<ScenarioSignals>>
            /\ run[r].scores = <<[aiLeverage |-> 600, problemSolver |-> 642,
                                  engineer |-> 25]>>
            /\ run[r].recommendation = <<"PASS">>
            /\ run[r].metrics_summary[1].signals = ScenarioSignals
            /\ run[r].metrics_summary[1].scores.problemSolver = 642
            /\ run[r].metrics_summary[1].recommendation = "PASS"

\* the scenario has been run from the logs up to its answer
ScenarioRun ==
    \E r \in Runs :
        /\ Scenario(r)
        /\ run[r].pc = "respond"
        /\ run[r].found = << <<1, 1>> >>
        /\ run[r].scores[1].problemSolver = 642

\* a summary without its timestamp
Untimed(summary) == [summary EXCEPT !.timestamp = 0]

\* the run r has assembled its summary, the candidate's stored summary is of
\* the same task identifier, and no log object has been written since the
\* earlier of the two runs began
Rerun(r) ==
    /\ run[r].pc = "save"
    /\ run[r].fresh
    /\ summaries[run[r].candidate_token] # <<>>
    /\ summaryFresh[run[r].candidate_token]
    /\ summaries[run[r].candidate_token][1].taskId = run[r].metrics_summary[1].taskId

\* C10: a run for the same candidate and task identifier over unchanged
\* logs yields the signals, scores and recommendation of the run before it,
\* and the summary it is about to store is the stored one apart from the
\* timestamp.
RerunReproducesSummary ==
    \A r \in Runs :
        Rerun(r) =>
            LET mine   == run[r].metrics_summary[1]
                stored == summaries[run[r].candidate_token][1]
            IN  /\ mine.signals = stored.signals
                /\ mine.scores = stored.scores
                /\ mine.recommendation = stored.recommendation
                /\ run[r].signals = <<stored.signals>>
                /\ run[r].scores = <<stored.scores>>
                /\ run[r].recommendation = <<stored.recommendation>>
                /\ Untimed(mine) = Untimed(stored)

\* a second run is about to store its summary, later than the first
RerunSeen ==
    \E r \in Runs :
        /\ Rerun(r)
        /\ run[r].metrics_summary[1].timestamp
               > summaries[run[r].candidate_token][1].timestamp

\* the steps of a run, each with the steps that may follow it
StepOrder ==
    {<<"idle", "fetch_interactions">>, <<"idle", "done">>,
     <<"done", "fetch_interactions">>,
     <<"fetch_interactions", "fetch_outcomes">>, <<"fetch_interactions", "done">>,
     <<"fetch_outcomes", "signals">>, <<"fetch_outcomes", "done">>,
     <<"signals", "scores">>, <<"scores", "recommend">>,
     <<"recommend", "save">>,
     <<"save", "respond">>, <<"save", "done">>,
     <<"respond", "done">>}

\* what a run holds at each step: both fetches are complete before the
\* signals, the signals before the scores, the scores before the
\* recommendation, the recommendation before the write, the write before
\* the answer
StepsHeld(r) ==
    /\ run[r].pc = "signals"
          => run[r].lists = 2 /\ run[r].found # <<>> /\ run[r].signals = <<>>
    /\ run[r].pc = "scores" => run[r].signals # <<>> /\ run[r].scores = <<>>
    /\ run[r].pc = "recommend"
          => run[r].scores # <<>> /\ run[r].recommendation = <<>>
    /\ run[r].pc = "save"
          => /\ run[r].recommendation # <<>> /\ run[r].metrics_summary # <<>>
             /\ run[r].puts = 0
    /\ run[r].pc = "respond" => run[r].puts = 1 /\ run[r].response = <<>>

\* C11: the steps of a run follow one another as fetch (both fetches) ->
\* signals -> scores -> recommend -> persist -> return; a summary is written
\* only by the persist step of a run; status 200 with signals, scores and
\* recommendation is returned only after exactly one write of that run; and
\* a run whose write failed returns status 500 with an error alone.
StepsInOrder ==
    /\ [][\A r \in Runs :
            /\ run'[r].pc # run[r].pc => <<run[r].pc, run'[r].pc>> \in StepOrder
            /\ run'[r].puts > run[r].puts
                  => /\ run[r].pc = "save" /\ run'[r].pc = "respond"
                     /\ run'[r].puts = run[r].puts + 1
                     /\ summaries'[run[r].candidate_token] = run[r].metrics_summary]_vars
    /\ [][summaries' # summaries
             => \E r \in Runs : run[r].pc = "save" /\ run'[r].pc = "respond"]_vars
    /\ [](\A r \in Runs :
            /\ StepsHeld(r)
            /\ (run[r].pc = "done" /\ run[r].response[1].statusCode = 200)
                  => /\ run[r].puts = 1 /\ run[r].lists = 2
                     /\ DOMAIN run[r].response[1].body
                            = {"candidateId", "signals", "scores", "recommendation"}
            /\ (run[r].pc = "done" /\ run[r].found # <<>> /\ run[r].puts = 0
                  /\ run[r].found[1][1] > 0 /\ run[r].found[1][2] > 0)
                  => /\ run[r].response[1].statusCode = 500
                     /\ DOMAIN run[r].response[1].body = {"error"})

\* a run has answered 200 after its one write
AnsweredAfterWrite ==
    \E r \in Runs :
        /\ run[r].pc = "done"
        /\ run[r].response[1].statusCode = 200
        /\ run[r].puts = 1
        /\ summaries[run[r].candidate_token] # <<>>

\* a summary all of whose parts are of one computation
Whole(summary) ==
    /\ DOMAIN summary = {"candidateId", "taskId", "timestamp", "interactionCount",
                         "outcomeCount", "signals", "scores", "recommendation"}
    /\ summary.scores = ComputeCompositeScores(summary.signals)
    /\ summary.recommendation = GenerateRecommendation(summary.scores)

\* C12: under any interleaving of runs, a candidate has at most one stored
\* summary, of that candidate; every write puts there, whole, the summary
\* that the writing run computed, whatever was stored before, and leaves
\* the summaries of the other candidates as they were; nothing else changes
\* a stored summary.
LastWriterWins ==
    /\ [][(summaries' # summaries \/ \E r \in Runs : run'[r].puts > run[r].puts)
             => \E r \in Runs :
                   /\ run[r].pc = "save" /\ run'[r].pc = "respond"
                   /\ summaries' = [summaries EXCEPT ![run[r].candidate_token] =
                                       run[r].metrics_summary]]_vars
    /\ [](\A c \in Candidates :
            summaries[c] # <<>>
                => /\ Len(summaries[c]) = 1
                   /\ summaries[c][1].candidateId = c
                   /\ Whole(summaries[c][1]))

\* two overlapping runs for one candidate, one for a task and one for all
\* tasks, have both written: the summary stored is that of the run that
\* read the clock first and wrote last
RaceSeen ==
    /\ run[1].pc = "respond" /\ run[2].pc = "respond"
    /\ run[1].candidate_token = run[2].candidate_token
    /\ run[1].metrics_summary[1].taskId # run[2].metrics_summary[1].taskId
    /\ run[1].metrics_summary[1].timestamp < run[2].metrics_summary[1].timestamp
    /\ summaries[run[1].candidate_token] = run[1].metrics_summary
    /\ summaries[3 - run[1].candidate_token] = <<>>

\* the positions in a log of the objects that can be read, belong to the
\* candidate and, with a task identifier given, to the task
Wanted(log, candidate_id, task_id, unreadable) ==
    {i \in 1..Len(log) :
        /\ log[i].candidateId = candidate_id
        /\ log[i].key \notin unreadable
        /\ (task_id # NONE => log[i].taskId = task_id)}

\* the objects at the given positions, in the order of the log
InListingOrder(log, positions) ==
    [k \in 1..Cardinality(positions) |->
        log[CHOOSE i \in positions :
                Cardinality({j \in positions : j < i}) = k - 1]]

\* the objects of the candidate that could not be read in a fetch
Skipped(log, candidate_id, unreadable) ==
    {i \in 1..Len(log) :
        log[i].candidateId = candidate_id /\ log[i].key \in unreadable}

\* the steps at which a run holds what it fetched
HoldsInteractions ==
    {"fetch_outcomes", "signals", "scores", "recommend", "save", "respond"}

HoldsOutcomes == {"signals", "scores", "recommend", "save", "respond"}

\* C13: an object that cannot be read or parsed during a fetch is skipped
\* with one warning and the fetch goes on: what is fetched is exactly the
\* readable matching objects in listing order; the run proceeds with them
\* when both sequences are non-empty and ends in the no-data error when
\* not, and never answers 500 on account of a skipped object.
UnreadableIsSkipped ==
    \A r \in Runs :
        LET c == run[r].candidate_token
            t == run[r].task_id
            u == run[r].unread
            wantedI == Wanted(interactionLog, c, t, u[1])
            wantedO == Wanted(outcomeLog, c, t, u[2])
        IN  /\ (Len(u) >= 1 /\ run[r].pc \in HoldsInteractions)
                  => run[r].interactions = InListingOrder(interactionLog, wantedI)
            /\ Len(u) = 1
                  => run[r].warnings
                         = Cardinality(Skipped(interactionLog, c, u[1]))
            /\ Len(u) = 2
                  => /\ run[r].warnings
                            = Cardinality(Skipped(interactionLog, c, u[1]))
                              + Cardinality(Skipped(outcomeLog, c, u[2]))
                     /\ run[r].found = << <<Cardinality(wantedI),
                                            Cardinality(wantedO)>> >>
                     /\ run[r].pc \in HoldsOutcomes
                           => run[r].outcomes = InListingOrder(outcomeLog, wantedO)
                     /\ (wantedI = {} \/ wantedO = {})
                           => /\ run[r].pc = "done"
                              /\ run[r].response
                                     = <<[statusCode |-> 400, body |-> NoData]>>
                     /\ (wantedI # {} /\ wantedO # {})
                           => \/ run[r].pc \in HoldsOutcomes
                              \/ /\ run[r].pc = "done"
                                 /\ run[r].response[1].statusCode = 200
            /\ (run[r].pc = "done" /\ run[r].parsed)
                  => run[r].response[1].statusCode # 500

\* a run for all tasks of a candidate has answered 200 from one interaction
\* and two outcomes, having skipped its first interaction with one warning
SkippedAndAnswered ==
    \E r \in Runs :
        /\ run[r].pc = "done"
        /\ run[r].response[1].statusCode = 200
        /\ run[r].task_id = NONE
        /\ run[r].unread = <<{<<1, 1>>}, {}>>
        /\ run[r].warnings = 1
        /\ run[r].found = << <<1, 2>> >>

\* the runs that have answered 200
Succeeded ==
    {r \in Runs : run[r].pc = "done" /\ run[r].response[1].statusCode = 200}

SignalNames ==
    {"contextQuality", "analysisDepth", "criticalThinking", "testCulture",
     "codeQuality", "decisionQuality"}

ScoreNames == {"aiLeverage", "problemSolver", "engineer"}

\* the answer carries the six signals, the three scores and the
\* recommendation of the summary that the run stored, under its candidate
\* and its task identifier or the marker for all tasks
AnswerMatchesSummary(r) ==
    LET answer == run[r].response[1].body
        stored == summaries[run[r].candidate_token][1]
    IN  /\ answer.candidateId = run[r].candidate_token
        /\ DOMAIN answer.signals = SignalNames
        /\ DOMAIN answer.scores = ScoreNames
        /\ answer.recommendation \in {"HIRE", "INTERVIEW", "PASS"}
        /\ stored.candidateId = answer.candidateId
        /\ stored.taskId = (IF run[r].task_id = NONE THEN AllTasks
                            ELSE run[r].task_id)
        /\ stored.signals = answer.signals
        /\ stored.scores = answer.scores
        /\ stored.recommendation = answer.recommendation

\* C14 as stated: every success output contains candidateId, taskId,
\* signals, scores and recommendation, the last four equal to those of the
\* summary stored by the run.
AnswerCarriesTaskId ==
    \A r \in Succeeded :
        /\ {"candidateId", "taskId", "signals", "scores", "recommendation"}
               \subseteq DOMAIN run[r].response[1].body
        /\ AnswerMatchesSummary(r)
        /\ run[r].response[1].body.taskId
               = summaries[run[r].candidate_token][1].taskId

\* C14: every success output contains candidateId, the six signals, the
\* three scores and the recommendation, and nothing else: the task
\* identifier, or the marker for all tasks, is in the stored summary alone;
\* signals, scores and recommendation equal those of the summary stored by
\* the run.
AnswerOmitsTaskId ==
    \A r \in Succeeded :
        /\ DOMAIN run[r].response[1].body
               = {"candidateId", "signals", "scores", "recommendation"}
        /\ AnswerMatchesSummary(r)

\* a run for all tasks has answered 200, its summary marked for all tasks
AnsweredForAllTasks ==
    \E r \in Succeeded :
        /\ run[r].task_id = NONE
        /\ summaries[run[r].candidate_token][1].taskId = AllTasks
        /\ "taskId" \notin DOMAIN run[r].response[1].body

\* the objects of a sequence, as a set
Range(seq) == {seq[k] : k \in 1..Len(seq)}

\* fetched holds, once each, the objects of the log that are readable, of
\* the candidate and, with a task identifier given, of the task, and
\* nothing of another candidate
ExactlyTheCandidates(fetched, log, candidate_id, task_id, unreadable) ==
    /\ \A obj \in Range(log) :
          obj \in Range(fetched)
              <=> /\ obj.candidateId = candidate_id
                  /\ obj.key \notin unreadable
                  /\ (task_id = NONE \/ obj.taskId = task_id)
    /\ Range(fetched) \subseteq Range(log)
    /\ Cardinality(Range(fetched)) = Len(fetched)
    /\ \A k \in 1..Len(fetched) : fetched[k].candidateId = candidate_id

\* C15 as stated: the sequences a run computes on hold exactly the readable
\* stored interactions (outcomes) of its candidate, of its task when one is given
\* and of all tasks when none is, the summary then marked for all tasks; no
\* record of another candidate is among them, and the counts of the summary
\* are their lengths.
FetchedAreTheCandidates ==
    \A r \in Runs :
        run[r].pc \in {"save", "respond"} =>
            LET summary == run[r].metrics_summary[1]
            IN  /\ ExactlyTheCandidates(run[r].interactions, interactionLog,
                                        run[r].candidate_token, run[r].task_id,
                                        run[r].unread[1])
                /\ ExactlyTheCandidates(run[r].outcomes, outcomeLog,
                                        run[r].candidate_token, run[r].task_id,
                                        run[r].unread[2])
                /\ summary.candidateId = run[r].candidate_token
                /\ summary.interactionCount = Len(run[r].interactions)
                /\ summary.outcomeCount = Len(run[r].outcomes)
                /\ run[r].task_id = NONE <=> summary.taskId = AllTasks
                /\ run[r].task_id # NONE => summary.taskId = run[r].task_id

\* a run for candidate 1 has assembled its summary from three
\* interactions, the third of them logged for the candidate "1/x"
ForeignRecordCounted ==
    \E r \in Runs :
        /\ run[r].pc = "save"
        /\ run[r].candidate_token = 1
        /\ Len(run[r].interactions) = 3
        /\ run[r].interactions[3].candidateId = Slashed
        /\ run[r].metrics_summary[1].interactionCount = 3

\* C16 as stated: the outcome log is append-only: whatever happens, every
\* outcome stored stays stored with its content, and a call of the outcome
\* logger that changes the log adds one record to it, also when its
\* requestId is that of a stored record.
OutcomesAppendOnly ==
    [][/\ \A i \in 1..Len(outcomeLog) :
             \E j \in 1..Len(outcomeLog') : outcomeLog'[j] = outcomeLog[i]
       /\ outcomeLog' # outcomeLog => Len(outcomeLog') = Len(outcomeLog) + 1]_vars

\* 25 times 40 * messageLength / 500 + 15 * questionsAsked + (20 with a
\* project summary), for a stored context quality
ClarityTimes25(quality) ==
    2 * quality.messageLength + 375 * quality.questionsAsked
        + (IF quality.hasProjectSummary THEN 500 ELSE 0)

\* C17 as stated: the clarity score stored with an interaction is
\* min(100, 40 * messageLength / 500 + 15 * questionsAsked + (20 with a
\* project summary)), and lies in [0, 100].
ClarityIsTheFormula ==
    \A i \in 1..Len(interactionLog) :
        LET quality == interactionLog[i].contextQuality
            clarity == quality.clarityScore[1]
        IN  /\ 25 * clarity = Min(2500, ClarityTimes25(quality))
            /\ 0 <= clarity /\ clarity <= 100

\* C17: the clarity score stored with an interaction is
\* min(100, 40 * messageLength / 500 + 15 * questionsAsked + (20 with a
\* project summary)) cut down to an integer, and lies in [0, 100].
ClarityIsTheFormulaTruncated ==
    \A i \in 1..Len(interactionLog) :
        LET quality == interactionLog[i].contextQuality
            clarity == quality.clarityScore[1]
        IN  /\ clarity = Min(100, ClarityTimes25(quality) \div 25)
            /\ 0 <= clarity /\ clarity <= 100

\* a message of 263 characters with four indicators and no project summary
\* (81.04) is stored with the clarity score 81
ClarityCutDown ==
    \E i \in 1..Len(interactionLog) :
        /\ interactionLog[i].contextQuality.messageLength = 263
        /\ interactionLog[i].contextQuality.questionsAsked = 4
        /\ ~interactionLog[i].contextQuality.hasProjectSummary
        /\ interactionLog[i].contextQuality.clarityScore = <<81>>

\* the positions in the log file of the events of a kind of a call
EventsOf(request_id, statuses) ==
    {i \in 1..Len(mcp.events) :
        mcp.events[i].request_id = request_id /\ mcp.events[i].status \in statuses}

\* C18 as stated: every JSON string that a tool returns carries a
\* request_id, the answers to rejected arguments included; and once a call
\* that logged a start event has returned, the log holds exactly one end
\* event of its request_id, after the start event, with status "ok" iff the
\* tool returned the result.
EveryAnswerCorrelates ==
    /\ mcp.returned # <<>> => mcp.returned[1].request_id # <<>>
    /\ mcp.pc \in {"idle", "returned"}
          => \A i \in 1..Len(mcp.events) :
                 mcp.events[i].status = "start"
                     => LET ends == EventsOf(mcp.events[i].request_id, {"ok", "error"})
                        IN  /\ Cardinality(ends) = 1
                            /\ \A j \in ends : j > i
                            /\ mcp.events[i].request_id = mcp.request_id
                                  => \A j \in ends :
                                         mcp.events[j].status = "ok"
                                             <=> mcp.returned[1].kind = "result"

\* evaluation_plan has answered rejected arguments with an error that
\* carries no request_id, and has logged nothing
RejectedWithoutRequestId ==
    /\ mcp.pc = "returned"
    /\ mcp.tool = "evaluation_plan"
    /\ mcp.returned = <<[kind |-> "error", request_id |-> <<>>]>>
    /\ mcp.events = <<>>

===========================================================================
